---- MODULE Spec2Model ----
(***************************************************************************)
(* FactorioCalc: the recipe algebra of src/src/recipe.ts (ResourceMap,     *)
(* Recipe) and almostLeastCommonMultiple of utilities.ts                   *)
(* (src/unnamed/part_000), as a state machine of a caller's pipeline.      *)
(*                                                                         *)
(* Quantities are JavaScript numbers.  The model keeps the integers and    *)
(* the three IEEE-754 values a division by zero brings in (Infinity,       *)
(* -Infinity, NaN); fractional quantities are outside the model.           *)
(***************************************************************************)
EXTENDS Integers, Sequences, FiniteSets

(***************************************************************************)
(* Bounds of the model.                                                    *)
(***************************************************************************)
\* largest quantity of an initial ledger entry
MaxQty == 3
\* largest operand of a direct call of almostLeastCommonMultiple
MaxOperand == 6
\* largest finite quantity or loop multiple the model follows
MaxCount == 60
\* largest output of the recipe whose outputs consumers are applied to
MaxOutput == 4
\* largest quantity of a recipe handed to mergeRecipes
MaxMerge == 10

(***************************************************************************)
(* JavaScript numbers.  A finite number is the integer itself; the three   *)
(* non-finite values are encoded far outside the finite range.             *)
(***************************************************************************)
Infinity == 1000000
NegInfinity == 0 - Infinity
NaN == 1000001

IsNaN(x) == x = NaN
IsInfinite(x) == x = Infinity \/ x = NegInfinity
IsFinite(x) == ~IsNaN(x) /\ ~IsInfinite(x)

\* unary minus
Neg(x) ==
    IF IsNaN(x) THEN NaN
    ELSE IF x = Infinity THEN NegInfinity
    ELSE IF x = NegInfinity THEN Infinity
    ELSE 0 - x

\* x + y
Add(x, y) ==
    IF IsNaN(x) \/ IsNaN(y) THEN NaN
    ELSE IF IsInfinite(x) /\ IsInfinite(y) THEN (IF x = y THEN x ELSE NaN)
    ELSE IF IsInfinite(x) THEN x
    ELSE IF IsInfinite(y) THEN y
    ELSE x + y

Sign(x) == IF x > 0 THEN 1 ELSE IF x < 0 THEN 0 - 1 ELSE 0

\* x * y
Mul(x, y) ==
    IF IsNaN(x) \/ IsNaN(y) THEN NaN
    ELSE IF IsInfinite(x) \/ IsInfinite(y)
         THEN (IF x = 0 \/ y = 0 THEN NaN
               ELSE IF Sign(x) = Sign(y) THEN Infinity ELSE NegInfinity)
    ELSE x * y

\* Math.floor(x / y)
FloorDiv(x, y) ==
    IF IsNaN(x) \/ IsNaN(y) THEN NaN
    ELSE IF IsInfinite(x)
         THEN (IF IsInfinite(y) THEN NaN
               ELSE IF Sign(x) * Sign(y) >= 0 THEN x ELSE Neg(x))
    ELSE IF IsInfinite(y) THEN 0
    ELSE IF y = 0
         THEN (IF x = 0 THEN NaN ELSE IF x > 0 THEN Infinity ELSE NegInfinity)
    ELSE IF y > 0 THEN x \div y
    ELSE (0 - x) \div (0 - y)

\* Math.ceil(x / y)
CeilDiv(x, y) == Neg(FloorDiv(Neg(x), y))

\* Math.abs(x)
Abs(x) ==
    IF IsNaN(x) THEN NaN
    ELSE IF IsInfinite(x) THEN Infinity
    ELSE IF x < 0 THEN 0 - x ELSE x

\* x > y
Gt(x, y) == ~IsNaN(x) /\ ~IsNaN(y) /\ x > y

\* x === y
StrictEq(x, y) == ~IsNaN(x) /\ ~IsNaN(y) /\ x = y

\* Math.max(x, y) and Math.min(x, y)
Max(x, y) == IF IsNaN(x) \/ IsNaN(y) THEN NaN ELSE IF x >= y THEN x ELSE y
Min(x, y) == IF IsNaN(x) \/ IsNaN(y) THEN NaN ELSE IF x <= y THEN x ELSE y

\* n / d <= e for a tolerance e = <<num, den>>, a finite rational >= 0
QuotientLeq(n, d, e) ==
    IF IsNaN(n) \/ IsNaN(d) THEN FALSE
    ELSE IF IsInfinite(n) THEN IsInfinite(d) = FALSE /\ Sign(n) * Sign(d) < 0
    ELSE IF IsInfinite(d) THEN TRUE
    ELSE IF d = 0 THEN n < 0
    ELSE IF d > 0 THEN n * e[2] <= e[1] * d
    ELSE n * e[2] >= e[1] * d

(***************************************************************************)
(* ResourceMap: a JavaScript Map from resource type to count.  A Map keeps *)
(* its keys in insertion order, and the order is read by getOutputTypes,   *)
(* so the model is the sequence of <<type, count>> entries.                *)
(***************************************************************************)
Resources == {"J", "K", "X", "Y", "Z"}

EmptyMap == << >>

hasResource(map, type) == \E i \in 1..Len(map) : map[i][1] = type

KeyIndex(map, type) == CHOOSE i \in 1..Len(map) : map[i][1] = type

resourceCount(map, type) ==
    IF ~hasResource(map, type) THEN 0 ELSE map[KeyIndex(map, type)][2]

getResourceTypes(map) == [i \in 1..Len(map) |-> map[i][1]]

removeResource(map, type) == SelectSeq(map, LAMBDA e : e[1] # type)

addResource(map, type, count) ==
    IF StrictEq(count, 0) THEN map
    ELSE IF hasResource(map, type)
         THEN [map EXCEPT ![KeyIndex(map, type)] = <<type, Add(@[2], count)>>]
    ELSE Append(map, <<type, count>>)

\* for (let [resource, count] of other.map) this.addResource(resource, count)
RECURSIVE ResourceMap_joinFrom(_, _, _)
ResourceMap_joinFrom(map, other, i) ==
    IF i > Len(other) THEN map
    ELSE ResourceMap_joinFrom(addResource(map, other[i][1], other[i][2]), other, i + 1)

ResourceMap_join(map, other) == ResourceMap_joinFrom(map, other, 1)

ResourceMap_multiply(map, multiplier) ==
    [i \in 1..Len(map) |-> <<map[i][1], Mul(map[i][2], multiplier)>>]

\* new ResourceMap(new Map(this.map)): a value of the model is its own copy
ResourceMap_clone(map) == map

(***************************************************************************)
(* Recipe: the pair of ledgers.  The operators return the recipe objects   *)
(* as the method leaves them.                                              *)
(***************************************************************************)
NewRecipe(inputs, outputs) == [inputs |-> inputs, outputs |-> outputs]

getOutputTypes(recipe) == getResourceTypes(recipe.outputs)

Recipe_multiply(recipe, multiplier) ==
    NewRecipe(ResourceMap_multiply(recipe.inputs, multiplier),
              ResourceMap_multiply(recipe.outputs, multiplier))

Recipe_join(recipe, other) ==
    NewRecipe(ResourceMap_join(recipe.inputs, other.inputs),
              ResourceMap_join(recipe.outputs, other.outputs))

Recipe_clone(recipe) ==
    NewRecipe(ResourceMap_clone(recipe.inputs), ResourceMap_clone(recipe.outputs))

\* this after the call, and other after the call (it is multiplied in place)
joinOnOutputNoScaling(this, other, joinOnThis, joinOnOther) ==
    LET thisOutputCount == resourceCount(this.outputs, joinOnThis)
        otherOutputCount == resourceCount(other.outputs, joinOnOther)
        otherMultiplier == FloorDiv(thisOutputCount, otherOutputCount)
        scaled == Recipe_multiply(other, otherMultiplier)
    IN  [this |-> Recipe_join(this, scaled), other |-> scaled]

RECURSIVE removeInputsFrom(_, _, _)
removeInputsFrom(map, resources, i) ==
    IF i > Len(resources) THEN map
    ELSE removeInputsFrom(removeResource(map, resources[i]), resources, i + 1)

removeInputs(recipe, resources) ==
    NewRecipe(removeInputsFrom(recipe.inputs, resources, 1), recipe.outputs)

(***************************************************************************)
(* The catalog.  getRecipe hands out a clone of the template, so a recipe  *)
(* named by identifier is a fresh object at every lookup.  The table is    *)
(* data; the model keeps two small templates over its own resources.       *)
(***************************************************************************)
RecipeTypes == {"RecipeC", "RecipeD"}

recipes ==
    [t \in RecipeTypes |->
        IF t = "RecipeC"
        THEN NewRecipe(<< <<"J", 2>> >>, << <<"K", 1>> >>)
        ELSE NewRecipe(<< <<"K", 1>> >>, << <<"J", 1>> >>)]

getRecipe(recipeType) == Recipe_clone(recipes[recipeType])

(***************************************************************************)
(* mergeRecipes(consumingRecipe, producingRecipe).  The first loop edits   *)
(* both arguments in place; each step touches the entry it visits only.    *)
(***************************************************************************)
RECURSIVE mergeCancelFrom(_, _, _, _)
mergeCancelFrom(consumingRecipe, producingRecipe, entries, i) ==
    IF i > Len(entries) THEN [consuming |-> consumingRecipe, producing |-> producingRecipe]
    ELSE
      LET inputResource == entries[i][1]
          inputCount == entries[i][2]
          outputCount == resourceCount(producingRecipe.outputs, inputResource)
      IN  IF ~hasResource(producingRecipe.outputs, inputResource)
          THEN mergeCancelFrom(consumingRecipe, producingRecipe, entries, i + 1)
          ELSE IF Gt(outputCount, inputCount)
          THEN mergeCancelFrom(
                 [consumingRecipe EXCEPT !.inputs = removeResource(@, inputResource)],
                 [producingRecipe EXCEPT
                    !.outputs = addResource(@, inputResource, Neg(inputCount))],
                 entries, i + 1)
          ELSE IF StrictEq(outputCount, inputCount)
          THEN mergeCancelFrom(
                 [consumingRecipe EXCEPT !.inputs = removeResource(@, inputResource)],
                 [producingRecipe EXCEPT !.outputs = removeResource(@, inputResource)],
                 entries, i + 1)
          ELSE mergeCancelFrom(
                 [consumingRecipe EXCEPT
                    !.inputs = addResource(@, inputResource, Neg(outputCount))],
                 [producingRecipe EXCEPT !.outputs = removeResource(@, inputResource)],
                 entries, i + 1)

\* a variant that joins the two recipes without cancelling anything
mergeRecipesUncancelled(consumingRecipe, producingRecipe) ==
    [result |-> NewRecipe(ResourceMap_join(producingRecipe.inputs, consumingRecipe.inputs),
                          ResourceMap_join(producingRecipe.outputs, consumingRecipe.outputs)),
     consuming |-> consumingRecipe,
     producing |-> producingRecipe]

\* a variant that leaves out the loop over the consumer's outputs
mergeRecipesInputsOnly(consumingRecipe, producingRecipe) ==
    LET cancelled == mergeCancelFrom(consumingRecipe, producingRecipe,
                                     consumingRecipe.inputs, 1)
        clone == Recipe_clone(cancelled.producing)
    IN  [result |-> NewRecipe(ResourceMap_join(clone.inputs, cancelled.consuming.inputs),
                              clone.outputs),
         consuming |-> cancelled.consuming,
         producing |-> cancelled.producing]

\* the merged recipe, and the two arguments as the call leaves them
mergeRecipes(consumingRecipe, producingRecipe) ==
    LET cancelled == mergeCancelFrom(consumingRecipe, producingRecipe,
                                     consumingRecipe.inputs, 1)
        clone == Recipe_clone(cancelled.producing)
    IN  [result |-> NewRecipe(ResourceMap_join(clone.inputs, cancelled.consuming.inputs),
                              ResourceMap_join(clone.outputs, cancelled.consuming.outputs)),
         consuming |-> cancelled.consuming,
         producing |-> cancelled.producing]

\* a variant that rounds the multiplier up
applyConsumerRecipeCeil(this, resolvedRecipe, resource) ==
    LET recipeMultiplier == CeilDiv(resourceCount(this.outputs, resource),
                                    resourceCount(resolvedRecipe.inputs, resource))
        merged == mergeRecipes(Recipe_multiply(resolvedRecipe, recipeMultiplier), this)
    IN  IF StrictEq(recipeMultiplier, 0)
        THEN [changed |-> FALSE, this |-> this, recipe |-> resolvedRecipe]
        ELSE [changed |-> TRUE, this |-> merged.result, recipe |-> merged.consuming]

\* applyConsumerRecipe on the resolved recipe: the value returned, this after
\* the call and the resolved recipe object after the call
applyConsumerRecipe(this, resolvedRecipe, resource) ==
    LET outputCount == resourceCount(this.outputs, resource)
        consumerInputCount == resourceCount(resolvedRecipe.inputs, resource)
        recipeMultiplier == FloorDiv(outputCount, consumerInputCount)
        scaled == Recipe_multiply(resolvedRecipe, recipeMultiplier)
        merged == mergeRecipes(scaled, this)
    IN  IF StrictEq(recipeMultiplier, 0)
        THEN [changed |-> FALSE, this |-> this, recipe |-> resolvedRecipe]
        ELSE [changed |-> TRUE, this |-> merged.result, recipe |-> merged.consuming]

(***************************************************************************)
(* applyProducerRecipesImpl: the pieces of one iteration of its for loop.  *)
(***************************************************************************)
\* recipe.getOutputTypes().filter(outputType => this.inputs.hasResource(outputType))
producerMatches(this, recipe) ==
    SelectSeq(getOutputTypes(recipe), LAMBDA outputType : hasResource(this.inputs, outputType))

\* (a, b) => [1, Math.floor(a / b)]
noScalingMultipliers(a, b) == <<1, FloorDiv(a, b)>>

\* a variant that does not multiply this recipe
producerSubstituteUnscaled(this, recipe, multipliers) ==
    IF StrictEq(multipliers[2], 0)
    THEN [applied |-> FALSE, this |-> this]
    ELSE [applied |-> TRUE,
          this |-> mergeRecipes(this, Recipe_multiply(Recipe_clone(recipe),
                                                      multipliers[2])).result]

\* a variant that merges with the two recipes in each other's place
producerSubstituteSwapped(this, recipe, multipliers) ==
    IF StrictEq(multipliers[2], 0)
    THEN [applied |-> FALSE, this |-> this]
    ELSE [applied |-> TRUE,
          this |-> mergeRecipes(Recipe_multiply(Recipe_clone(recipe), multipliers[2]),
                                Recipe_multiply(this, multipliers[1])).result]

\* from `if (outputMultiplier === 0) continue` to the end of the iteration:
\* whether the recipe was applied, and this after it
producerSubstitute(this, recipe, multipliers) ==
    LET inputMultiplier == multipliers[1]
        outputMultiplier == multipliers[2]
        scaledThis == Recipe_multiply(this, inputMultiplier)
        scaledRecipe == Recipe_multiply(Recipe_clone(recipe), outputMultiplier)
        merged == mergeRecipes(scaledThis, scaledRecipe)
    IN  IF StrictEq(outputMultiplier, 0)
        THEN [applied |-> FALSE, this |-> this]
        ELSE [applied |-> TRUE, this |-> merged.result]

\* Map.set(label, value): a key that is present keeps its place
mapSet(map, label, value) ==
    IF \E i \in 1..Len(map) : map[i].label = label
    THEN [i \in 1..Len(map) |->
            IF map[i].label = label THEN [label |-> label, recipe |-> value] ELSE map[i]]
    ELSE Append(map, [label |-> label, recipe |-> value])

\* the label of a recipe argument and the entries of the map after the loop
RECURSIVE createRecipeMapFrom(_, _, _)
createRecipeMapFrom(recipeMap, recipeList, i) ==
    IF i > Len(recipeList) THEN recipeMap
    ELSE createRecipeMapFrom(
           mapSet(recipeMap,
                  IF recipeList[i].kind = "lit" THEN "custom" ELSE recipeList[i].id,
                  recipeList[i]),
           recipeList, i + 1)

createRecipeMap(recipeList) == createRecipeMapFrom(<< >>, recipeList, 1)

(***************************************************************************)
(* The program state.                                                      *)
(***************************************************************************)
VARIABLES
    self,    \* the Recipe the caller's pipeline works on (this)
    lits,    \* the literal Recipe objects the caller holds and passes in
    config,  \* config.json: [almostLeastCommonMultipleError |-> <<num, den>>]
    pc,      \* "idle", or the loop the program is in
    frame,   \* the locals of the running method
    alcm,    \* the locals of a running almostLeastCommonMultiple
    call     \* the operation invoked last, with self and lits as they were

vars == <<self, lits, config, pc, frame, alcm, call>>

\* a recipe argument: RecipeTypes | Recipe
LitRef(i) == [kind |-> "lit", id |-> i]
CatRef(t) == [kind |-> "cat", id |-> t]
Refs == {LitRef(i) : i \in 1..Len(lits)} \cup {CatRef(t) : t \in RecipeTypes}

\* recipe instanceof Recipe ? recipe : getRecipe(recipe)
getRecipeFromRecipeTypesOrRecipe(ref) ==
    IF ref.kind = "lit" THEN lits[ref.id] ELSE getRecipe(ref.id)

\* the caller's literals after the object behind ref was left as `recipe`
StoreLit(ref, recipe) ==
    IF ref.kind = "lit" THEN [lits EXCEPT ![ref.id] = recipe] ELSE lits

NoFrame == [op |-> "none"]
NoALCM == [status |-> "none"]
NoCall == [op |-> "none"]

(***************************************************************************)
(* almostLeastCommonMultiple(a, b, error), one loop iteration per step.    *)
(***************************************************************************)
ALCMEnter(a, b, error, caller) ==
    [status |-> "loop", a |-> a, b |-> b, error |-> error,
     bigger |-> Max(a, b), lower |-> Min(a, b),
     biggerMultiple |-> Max(a, b), result |-> << >>, caller |-> caller]

\* a variant that compares the absolute difference with the tolerance
ALCMAcceptsAbsolute(lower, multiplier, biggerMultiple, error) ==
    QuotientLeq(Abs(Add(Mul(lower, multiplier), Neg(biggerMultiple))), 1, error)

\* Math.abs(lower * multiplier - biggerMultiple) / biggerMultiple <= error
ALCMAccepts(lower, multiplier, biggerMultiple, error) ==
    QuotientLeq(Abs(Add(Mul(lower, multiplier), Neg(biggerMultiple))),
                biggerMultiple, error)

\* biggerMultiple / bigger, a whole number of times
ALCMBiggerMultiplier(l) == FloorDiv(l.biggerMultiple, l.bigger)

\* a variant that forgets which operand is the bigger one
ALCMReturnUnordered(l, lowerMultiplier) ==
    [l EXCEPT !.status = "returned",
              !.result = <<lowerMultiplier, FloorDiv(l.biggerMultiple, l.bigger)>>]

ALCMReturn(l, lowerMultiplier) ==
    [l EXCEPT !.status = "returned",
              !.result = IF StrictEq(l.a, l.bigger)
                         THEN <<ALCMBiggerMultiplier(l), lowerMultiplier>>
                         ELSE <<lowerMultiplier, ALCMBiggerMultiplier(l)>>]

\* the body of while (true)
ALCMBody(l) ==
    LET lowerMultiplierFloor == FloorDiv(l.biggerMultiple, l.lower)
        lowerMultiplierCeil == CeilDiv(l.biggerMultiple, l.lower)
    IN  IF ALCMAccepts(l.lower, lowerMultiplierFloor, l.biggerMultiple, l.error)
        THEN ALCMReturn(l, lowerMultiplierFloor)
        ELSE IF ALCMAccepts(l.lower, lowerMultiplierCeil, l.biggerMultiple, l.error)
        THEN ALCMReturn(l, lowerMultiplierCeil)
        ELSE [l EXCEPT !.biggerMultiple = Add(l.biggerMultiple, l.bigger)]

\* the tolerances a caller passes
Errors == {<<0, 1>>, <<1, 20>>, <<1, 10>>, <<1, 4>>, <<1, 2>>, <<1, 1>>}

ALCMCall ==
    /\ pc = "idle"
    /\ call.op = "none"
    /\ \E a \in 0..MaxOperand, b \in 0..MaxOperand, error \in Errors :
        /\ alcm' = ALCMEnter(a, b, error, "caller")
        /\ call' = [op |-> "almostLeastCommonMultiple", self |-> self, lits |-> lits]
    /\ pc' = "alcm"
    /\ UNCHANGED <<self, lits, config, frame>>

ALCMIterate ==
    /\ pc = "alcm"
    /\ alcm.status = "loop"
    /\ IsFinite(alcm.biggerMultiple) => alcm.biggerMultiple <= MaxCount
    /\ alcm' = ALCMBody(alcm)
    /\ UNCHANGED <<self, lits, config, pc, frame, call>>

(***************************************************************************)
(* The combinators of Recipe.                                              *)
(***************************************************************************)
Multiply ==
    /\ pc = "idle"
    /\ call.op = "none"
    /\ \E multiplier \in 0..MaxQty :
        /\ self' = Recipe_multiply(self, multiplier)
        /\ call' = [op |-> "multiply", self |-> self, lits |-> lits,
                    multiplier |-> multiplier]
    /\ UNCHANGED <<lits, config, pc, frame, alcm>>

Join ==
    /\ pc = "idle"
    /\ call.op = "none"
    /\ \E other \in Refs :
        /\ self' = Recipe_join(self, getRecipeFromRecipeTypesOrRecipe(other))
        /\ call' = [op |-> "join", self |-> self, lits |-> lits, other |-> other]
    /\ UNCHANGED <<lits, config, pc, frame, alcm>>

JoinOnOutput ==
    /\ pc = "idle"
    /\ call.op = "none"
    /\ \E other \in Refs, joinOnThis \in Resources, joinOnOther \in Resources,
          exact \in BOOLEAN :
        LET thisOutputCount == resourceCount(self.outputs, joinOnThis)
            otherOutputCount ==
                resourceCount(getRecipeFromRecipeTypesOrRecipe(other).outputs, joinOnOther)
            error == IF exact THEN <<0, 1>> ELSE config.almostLeastCommonMultipleError
        IN  /\ alcm' = ALCMEnter(thisOutputCount, otherOutputCount, error, "joinOnOutput")
            /\ frame' = [op |-> "joinOnOutput", other |-> other]
            /\ call' = [op |-> "joinOnOutput", self |-> self, lits |-> lits,
                        other |-> other, joinOnThis |-> joinOnThis,
                        joinOnOther |-> joinOnOther, exact |-> exact]
    /\ pc' = "alcm"
    /\ UNCHANGED <<self, lits, config>>

\* joinOnOutput from the return of almostLeastCommonMultiple on
JoinOnOutputResume ==
    /\ pc = "alcm"
    /\ alcm.status = "returned"
    /\ alcm.caller = "joinOnOutput"
    /\ LET thisMultiplier == alcm.result[1]
           otherMultiplier == alcm.result[2]
           this == Recipe_multiply(self, thisMultiplier)
           other == Recipe_multiply(getRecipeFromRecipeTypesOrRecipe(frame.other),
                                    otherMultiplier)
       IN  /\ self' = Recipe_join(this, other)
           /\ lits' = StoreLit(frame.other, other)
    /\ pc' = "idle"
    /\ frame' = NoFrame
    /\ alcm' = NoALCM
    /\ UNCHANGED <<config, call>>

JoinOnOutputNoScaling ==
    /\ pc = "idle"
    /\ call.op = "none"
    /\ \E other \in Refs, joinOnThis \in Resources, joinOnOther \in Resources :
        LET after == joinOnOutputNoScaling(self, getRecipeFromRecipeTypesOrRecipe(other),
                                           joinOnThis, joinOnOther)
        IN  /\ self' = after.this
            /\ lits' = StoreLit(other, after.other)
            /\ call' = [op |-> "joinOnOutputNoScaling", self |-> self, lits |-> lits,
                        other |-> other, joinOnThis |-> joinOnThis,
                        joinOnOther |-> joinOnOther]
    /\ UNCHANGED <<config, pc, frame, alcm>>

RemoveInputs ==
    /\ pc = "idle"
    /\ call.op = "none"
    /\ \E r1 \in Resources, r2 \in Resources :
        /\ self' = removeInputs(self, <<r1, r2>>)
        /\ call' = [op |-> "removeInputs", self |-> self, lits |-> lits]
    /\ UNCHANGED <<lits, config, pc, frame, alcm>>

(***************************************************************************)
(* applyConsumerRecipes and applyCyclicConsumerRecipes, one consumer       *)
(* definition per step.  call.applied lists the definitions of the running *)
(* pass that applyConsumerRecipe was called for, call.step is that call.   *)
(***************************************************************************)
ConsumerDefinitions ==
    {[recipe |-> ref, resource |-> r] : ref \in Refs, r \in {"J", "K"}}

ConsumerLists ==
    {<<d>> : d \in ConsumerDefinitions}
        \cup {<<d1, d2>> : d1 \in ConsumerDefinitions, d2 \in ConsumerDefinitions}

ConsumersCall(op, lists) ==
    /\ pc = "idle"
    /\ call.op = "none"
    /\ \E consumerDefinitions \in lists :
        /\ frame' = [op |-> op, list |-> consumerDefinitions, idx |-> 1, update |-> FALSE]
        /\ call' = [op |-> op, self |-> self, lits |-> lits,
                    list |-> consumerDefinitions, applied |-> << >>,
                    step |-> [op |-> "none"]]
    /\ pc' = "consumers"
    /\ UNCHANGED <<self, lits, config, alcm>>

ApplyConsumerRecipes == ConsumersCall("applyConsumerRecipes", ConsumerLists)

ApplyCyclicConsumerRecipes == ConsumersCall("applyCyclicConsumerRecipes", ConsumerLists)

\* applyCyclicConsumerRecipes([[first literal, "J"], [second literal, "K"]])
ApplyCyclicLiterals ==
    ConsumersCall("applyCyclicConsumerRecipes",
                  {<<[recipe |-> LitRef(1), resource |-> "J"],
                     [recipe |-> LitRef(2), resource |-> "K"]>>})

\* this.applyConsumerRecipe(recipe, resource) for the definition at frame.idx
ConsumerApply(update) ==
    LET def == frame.list[frame.idx]
        resolvedRecipe == getRecipeFromRecipeTypesOrRecipe(def.recipe)
        applied == applyConsumerRecipe(self, resolvedRecipe, def.resource)
    IN  /\ self' = applied.this
        /\ lits' = StoreLit(def.recipe, applied.recipe)
        /\ frame' = [frame EXCEPT !.idx = @ + 1, !.update = update \/ applied.changed]
        /\ call' = [call EXCEPT
                      !.applied = Append(@, frame.idx),
                      !.step = [op |-> "applyConsumerRecipe", this |-> self,
                                recipe |-> resolvedRecipe, ref |-> def.recipe,
                                resource |-> def.resource,
                                changed |-> applied.changed]]

\* the body of the for loop of applyConsumerRecipes
ConsumersStep ==
    /\ pc = "consumers"
    /\ frame.op = "applyConsumerRecipes"
    /\ frame.idx <= Len(frame.list)
    /\ ConsumerApply(FALSE)
    /\ UNCHANGED <<config, pc, alcm>>

\* the body of the for loop of applyCyclicConsumerRecipes:
\* update ||= this.applyConsumerRecipe(recipe, resource)
CyclicStep ==
    /\ pc = "consumers"
    /\ frame.op = "applyCyclicConsumerRecipes"
    /\ frame.idx <= Len(frame.list)
    /\ IF frame.update
       THEN /\ frame' = [frame EXCEPT !.idx = @ + 1]
            /\ UNCHANGED <<self, lits, call>>
       ELSE ConsumerApply(frame.update)
    /\ UNCHANGED <<config, pc, alcm>>

\* while (update): the pass is over, and another one starts
CyclicNextPass ==
    /\ pc = "consumers"
    /\ frame.op = "applyCyclicConsumerRecipes"
    /\ frame.idx > Len(frame.list)
    /\ frame.update
    /\ frame' = [frame EXCEPT !.idx = 1, !.update = FALSE]
    /\ call' = [call EXCEPT !.applied = << >>]
    /\ UNCHANGED <<self, lits, config, pc, alcm>>

\* return this
ConsumersReturn ==
    /\ pc = "consumers"
    /\ frame.idx > Len(frame.list)
    /\ frame.op = "applyCyclicConsumerRecipes" => ~frame.update
    /\ pc' = "idle"
    /\ frame' = NoFrame
    /\ UNCHANGED <<self, lits, config, alcm, call>>

(***************************************************************************)
(* Recipe.mergeRecipes(consumingRecipe, producingRecipe) on the caller's   *)
(* two literals: self is the recipe returned, the literals are left as the *)
(* call edited them.                                                       *)
(***************************************************************************)
MergeRecipes ==
    /\ pc = "idle"
    /\ call.op = "none"
    /\ LET merged == mergeRecipes(lits[1], lits[2])
       IN  /\ self' = merged.result
           /\ lits' = <<merged.consuming, merged.producing>>
    /\ call' = [op |-> "mergeRecipes", consuming |-> lits[1], producing |-> lits[2]]
    /\ UNCHANGED <<config, pc, frame, alcm>>

(***************************************************************************)
(* applyProducerRecipes and applyProducerRecipesNoScaling, one entry of    *)
(* the recipe map per step.  call.tried lists the candidates the running   *)
(* pass has tried, call.substitutions is 0 until a recipe is applied,       *)
(* call.step is the last iteration that reached multiplierFunc.            *)
(***************************************************************************)
ProducerLists ==
    {<<r>> : r \in Refs} \cup {<<p[1], p[2]>> : p \in {q \in Refs \X Refs : q[1] # q[2]}}

ProducerOps == {"applyProducerRecipes", "applyProducerRecipesNoScaling"}

ProducersEnter(op, recipeList, again) ==
    /\ frame' = [op |-> op, recipeMap |-> createRecipeMap(recipeList),
                 idx |-> 1, update |-> FALSE]
    /\ call' = [op |-> op, self |-> self, lits |-> lits, list |-> recipeList,
                tried |-> << >>, substitutions |-> 0, again |-> again,
                first |-> IF again THEN call.self ELSE self,
                step |-> [op |-> "none"]]
    /\ pc' = "producers"
    /\ UNCHANGED <<self, lits, config, alcm>>

ApplyProducerRecipes ==
    /\ pc = "idle"
    /\ call.op = "none"
    /\ \E op \in ProducerOps, recipeList \in ProducerLists :
        ProducersEnter(op, recipeList, FALSE)

\* the caller invokes the same method again, with the same list
ApplyProducerRecipesAgain ==
    /\ pc = "idle"
    /\ call.op \in ProducerOps
    /\ ~call.again
    /\ ProducersEnter(call.op, call.list, TRUE)

\* the quantities of a recipe stay within what the model follows
WithinCount(recipe) ==
    \A map \in {recipe.inputs, recipe.outputs} :
        \A i \in 1..Len(map) : IsFinite(map[i][2]) => map[i][2] <= MaxCount

\* the rest of the iteration, once multiplierFunc has returned
ProducerFinish(recipe, multipliers) ==
    LET substituted == producerSubstitute(self, recipe, multipliers)
    IN  /\ WithinCount(substituted.this)
        /\ self' = substituted.this
        /\ frame' = [frame EXCEPT !.idx = @ + 1,
                                  !.update = @ \/ substituted.applied]
        /\ call' = [call EXCEPT
                      !.tried = Append(@, frame.recipeMap[frame.idx].recipe),
                      !.substitutions = IF substituted.applied THEN 1 ELSE @,
                      !.step = [op |-> "substitute", this |-> self, recipe |-> recipe,
                                resource |-> producerMatches(self, recipe)[1],
                                multipliers |-> multipliers,
                                applied |-> substituted.applied]]

\* the body of the for loop, to the call of multiplierFunc and, when it is
\* not almostLeastCommonMultiple, to the end of the iteration
ProducersStep ==
    /\ pc = "producers"
    /\ frame.idx <= Len(frame.recipeMap)
    /\ LET recipe == getRecipeFromRecipeTypesOrRecipe(frame.recipeMap[frame.idx].recipe)
           matches == producerMatches(self, recipe)
           outputType == matches[1]
           currentInput == resourceCount(self.inputs, outputType)
           recipeOutput == resourceCount(recipe.outputs, outputType)
       IN  IF Len(matches) = 0
           THEN /\ frame' = [frame EXCEPT !.idx = @ + 1]
                /\ call' = [call EXCEPT
                              !.tried = Append(@, frame.recipeMap[frame.idx].recipe)]
                /\ UNCHANGED <<self, pc, alcm>>
           ELSE IF frame.op = "applyProducerRecipesNoScaling"
           THEN /\ ProducerFinish(recipe, noScalingMultipliers(currentInput, recipeOutput))
                /\ UNCHANGED <<pc, alcm>>
           ELSE /\ alcm' = ALCMEnter(currentInput, recipeOutput,
                                     config.almostLeastCommonMultipleError,
                                     "applyProducerRecipes")
                /\ pc' = "alcm"
                /\ UNCHANGED <<self, frame, call>>
    /\ UNCHANGED <<lits, config>>

\* the iteration from the return of almostLeastCommonMultiple on
ProducersResume ==
    /\ pc = "alcm"
    /\ alcm.status = "returned"
    /\ alcm.caller = "applyProducerRecipes"
    /\ ProducerFinish(getRecipeFromRecipeTypesOrRecipe(frame.recipeMap[frame.idx].recipe),
                      alcm.result)
    /\ pc' = "producers"
    /\ alcm' = NoALCM
    /\ UNCHANGED <<lits, config>>

\* while (update): the pass is over, and another one starts
ProducersNextPass ==
    /\ pc = "producers"
    /\ frame.idx > Len(frame.recipeMap)
    /\ frame.update
    /\ frame' = [frame EXCEPT !.idx = 1, !.update = FALSE]
    /\ call' = [call EXCEPT !.tried = << >>]
    /\ UNCHANGED <<self, lits, config, pc, alcm>>

\* a variant that returns after one pass, whether or not it changed the recipe
ProducersReturnAfterOnePass ==
    /\ pc = "producers"
    /\ frame.idx > Len(frame.recipeMap)
    /\ pc' = "idle"
    /\ frame' = NoFrame
    /\ UNCHANGED <<self, lits, config, alcm, call>>

\* return this
ProducersReturn ==
    /\ pc = "producers"
    /\ frame.idx > Len(frame.recipeMap)
    /\ ~frame.update
    /\ pc' = "idle"
    /\ frame' = NoFrame
    /\ UNCHANGED <<self, lits, config, alcm, call>>

(***************************************************************************)
(* Initial states: ledgers of positive whole quantities.                   *)
(***************************************************************************)
Quantities == 1..MaxQty

ConfigErrors == {<<0, 1>>, <<1, 4>>}

Entry(type, count) == << <<type, count>> >>

InitCommon ==
    /\ config \in {[almostLeastCommonMultipleError |-> e] : e \in ConfigErrors}
    /\ pc = "idle"
    /\ frame = NoFrame
    /\ alcm = NoALCM
    /\ call = NoCall

Init ==
    /\ self \in {NewRecipe(Entry("X", q), Entry("Y", o)) : q \in Quantities, o \in Quantities}
    /\ lits \in {<<NewRecipe(Entry("Z", 1), Entry(t, p))>> :
                    t \in {"X", "Y"}, p \in Quantities}
    /\ InitCommon

Next ==
    \/ ALCMCall
    \/ ALCMIterate
    \/ Multiply
    \/ Join
    \/ JoinOnOutput
    \/ JoinOnOutputResume
    \/ JoinOnOutputNoScaling
    \/ RemoveInputs

Spec == Init /\ [][Next]_vars

InitConsumers ==
    /\ self \in {NewRecipe(EmptyMap, Entry("J", o) \o extra) :
                    o \in 1..MaxOutput, extra \in {EmptyMap, Entry("K", 1)}}
    /\ lits \in {<<NewRecipe(Entry("J", c) \o extra, Entry(t, k)),
                   NewRecipe(Entry("K", d), Entry("J", 1))>> :
                    c \in Quantities, extra \in {EmptyMap, Entry("K", 1)},
                    t \in {"J", "K"}, k \in 1..2, d \in 1..2}
    /\ config = [almostLeastCommonMultipleError |-> <<0, 1>>]
    /\ pc = "idle"
    /\ frame = NoFrame
    /\ alcm = NoALCM
    /\ call = NoCall

NextConsumers ==
    \/ ApplyConsumerRecipes
    \/ ApplyCyclicConsumerRecipes
    \/ ConsumersStep
    \/ CyclicStep
    \/ CyclicNextPass
    \/ ConsumersReturn

SpecConsumers == InitConsumers /\ [][NextConsumers]_vars


\* the small specification C10's scenario is checked under
InitScenarios ==
    /\ self \in {NewRecipe(EmptyMap, Entry("J", o)) : o \in 1..MaxOutput}
    /\ lits \in {<<NewRecipe(Entry("J", c), Entry("K", k)),
                   NewRecipe(Entry("K", d), Entry("J", 1))>> :
                    c \in 1..2, k \in 1..2, d \in 1..2}
    /\ config = [almostLeastCommonMultipleError |-> <<0, 1>>]
    /\ pc = "idle"
    /\ frame = NoFrame
    /\ alcm = NoALCM
    /\ call = NoCall

NextScenarios ==
    \/ ApplyCyclicLiterals
    \/ CyclicStep
    \/ CyclicNextPass
    \/ ConsumersReturn

\* the program is sequential: a loop that can take a step takes it
FairSpecScenarios ==
    /\ InitScenarios
    /\ [][NextScenarios]_vars
    /\ WF_vars(CyclicStep)
    /\ WF_vars(CyclicNextPass)
    /\ WF_vars(ConsumersReturn)

InitProducers ==
    /\ self \in {NewRecipe(Entry("X", q) \o extra, Entry("Y", 2)) :
                    q \in Quantities, extra \in {EmptyMap, Entry("J", 1)}}
    /\ lits \in {<<NewRecipe(Entry("Z", 1), Entry("X", p) \o extra),
                   NewRecipe(Entry("K", 1), Entry("Z", z))>> :
                    p \in Quantities, extra \in {EmptyMap, Entry("J", 1)}, z \in 1..2}
    /\ InitCommon

NextProducers ==
    \/ ApplyProducerRecipes
    \/ ApplyProducerRecipesAgain
    \/ ProducersStep
    \/ ProducersResume
    \/ ProducersNextPass
    \/ ProducersReturn
    \/ ALCMIterate

SpecProducers == InitProducers /\ [][NextProducers]_vars

\* applyProducerRecipes / applyProducerRecipesNoScaling([first literal, RecipeD])
ApplyProducersOfCycle ==
    /\ pc = "idle"
    /\ call.op = "none"
    /\ \E op \in ProducerOps :
        ProducersEnter(op, <<LitRef(1), CatRef("RecipeD")>>, FALSE)

\* a recipe that needs J, RecipeD that makes J from K, and a literal producer
\* that makes K (a cycle with RecipeD) or Z (no cycle) from J
InitCycles ==
    /\ self \in {NewRecipe(Entry("J", q), Entry("Y", 1)) : q \in Quantities}
    /\ lits \in {<<NewRecipe(Entry("J", 1), Entry(t, 1))>> : t \in {"K", "Z"}}
    /\ InitCommon

NextCycles ==
    \/ ApplyProducersOfCycle
    \/ ProducersStep
    \/ ProducersResume
    \/ ProducersNextPass
    \/ ProducersReturn
    \/ ALCMIterate

\* the program is sequential: a loop that can take a step takes it
FairSpecCycles ==
    /\ InitCycles
    /\ [][NextCycles]_vars
    /\ WF_vars(ProducersStep)
    /\ WF_vars(ProducersResume)
    /\ WF_vars(ProducersNextPass)
    /\ WF_vars(ProducersReturn)
    /\ WF_vars(ALCMIterate)

\* a consumer that needs X, and J or not, and a producer that outputs X, and
\* J or not; either may have X on its other side as well
InitMerge ==
    /\ self = NewRecipe(EmptyMap, EmptyMap)
    /\ lits \in {<<NewRecipe(Entry("X", c) \o ci, co), NewRecipe(pi, Entry("X", p) \o po)>> :
                    c \in 1..MaxMerge, p \in 1..MaxMerge,
                    ci \in {EmptyMap, Entry("J", 2)},
                    co \in {Entry("Y", 1), Entry("X", 1)},
                    pi \in {Entry("K", 1), Entry("X", 1)},
                    po \in {EmptyMap, Entry("J", 1), Entry("J", 3)}}
    /\ config = [almostLeastCommonMultipleError |-> <<0, 1>>]
    /\ pc = "idle"
    /\ frame = NoFrame
    /\ alcm = NoALCM
    /\ call = NoCall

NextMerge == MergeRecipes

SpecMerge == InitMerge /\ [][NextMerge]_vars

\* a caller that merges two recipes, applies consumers or applies producers
InitFlow == InitConsumers \/ InitProducers

NextFlow ==
    \/ MergeRecipes
    \/ ApplyConsumerRecipes
    \/ ApplyCyclicConsumerRecipes
    \/ ConsumersStep
    \/ CyclicStep
    \/ CyclicNextPass
    \/ ConsumersReturn
    \/ ApplyProducerRecipes
    \/ ApplyProducerRecipesAgain
    \/ ProducersStep
    \/ ProducersResume
    \/ ProducersNextPass
    \/ ProducersReturn
    \/ ALCMIterate

SpecFlow == InitFlow /\ [][NextFlow]_vars

(***************************************************************************)
(* Properties.                                                             *)
(***************************************************************************)
AllRecipes == {self} \cup {lits[i] : i \in 1..Len(lits)}

Ledgers(recipe) == {recipe.inputs, recipe.outputs}

StoresZero(map) == \E i \in 1..Len(map) : StrictEq(map[i][2], 0)

\* C1: no ledger of any recipe involved stores a resource with quantity 0,
\* whatever operations were applied to ledgers that held no zero.
C1_NoZeroStored ==
    \A recipe \in AllRecipes : \A map \in Ledgers(recipe) : ~StoresZero(map)

\* the least common multiple of two positive integers, by its definition
IsCommonMultiple(n, a, b) == n % a = 0 /\ n % b = 0

LCM(a, b) ==
    CHOOSE n \in 1..(a * b) :
        /\ IsCommonMultiple(n, a, b)
        /\ \A m \in 1..(n - 1) : ~IsCommonMultiple(m, a, b)

PositiveOperands == alcm.a \in 1..MaxCount /\ alcm.b \in 1..MaxCount

\* C2: for positive integers a and b, almostLeastCommonMultiple(a, b, 0) ends
\* (the loop never looks past lcm(a, b)) and returns positive (m1, m2) with
\* a*m1 = b*m2 = lcm(a, b); joinOnOutput in exact mode unions the two recipes
\* scaled to equal anchor outputs.
C2_ExactLCM ==
    /\ (pc = "alcm" /\ alcm.error[1] = 0 /\ PositiveOperands) =>
          LET lcm == LCM(alcm.a, alcm.b)
          IN  /\ alcm.status = "loop" => alcm.biggerMultiple <= lcm
              /\ alcm.status = "returned" =>
                    /\ alcm.result = <<lcm \div alcm.a, lcm \div alcm.b>>
                    /\ alcm.result[1] >= 1 /\ alcm.result[2] >= 1
                    /\ alcm.a * alcm.result[1] = alcm.b * alcm.result[2]
    /\ (pc = "idle" /\ call.op = "joinOnOutput" /\ call.exact) =>
          LET other == IF call.other.kind = "lit" THEN call.lits[call.other.id]
                       ELSE getRecipe(call.other.id)
              thisCount == resourceCount(call.self.outputs, call.joinOnThis)
              otherCount == resourceCount(other.outputs, call.joinOnOther)
          IN  \E m1 \in 1..MaxCount, m2 \in 1..MaxCount :
                /\ thisCount * m1 = otherCount * m2
                /\ thisCount * m1 = LCM(thisCount, otherCount)
                /\ self = Recipe_join(Recipe_multiply(call.self, m1),
                                      Recipe_multiply(other, m2))
                /\ call.other.kind = "lit" =>
                      lits[call.other.id] = Recipe_multiply(other, m2)

C2_Witness ==
    /\ pc = "idle"
    /\ call.op = "joinOnOutput"
    /\ call.exact
    /\ call.other.kind = "lit"
    /\ resourceCount(call.self.outputs, call.joinOnThis) = 2
    /\ resourceCount(call.lits[1].outputs, call.joinOnOther) = 3
    /\ resourceCount(lits[1].outputs, call.joinOnOther) = 6

\* floor and ceiling of n / d for positive integers
FloorOf(n, d) == n \div d
CeilOf(n, d) == IF n % d = 0 THEN n \div d ELSE (n \div d) + 1

AbsDiff(x, y) == IF x >= y THEN x - y ELSE y - x

\* |lo*m - T| / T <= error
WithinError(lo, m, T, error) == AbsDiff(lo * m, T) * error[2] <= error[1] * T

MeetsBound(lo, T, error) ==
    WithinError(lo, FloorOf(T, lo), T, error) \/ WithinError(lo, CeilOf(T, lo), T, error)

\* C3: for positive integers a, b and any tolerance error >= 0 the call
\* returns positive multipliers with |a*m1 - b*m2| <= error * T, where T is
\* the multiple of max(a, b) returned and no smaller multiple of max(a, b)
\* has a floor or ceil multiplier of min(a, b) within the tolerance.
C3_WithinTolerance ==
    (pc = "alcm" /\ alcm.status = "returned" /\ PositiveOperands) =>
        LET hi == IF alcm.a >= alcm.b THEN alcm.a ELSE alcm.b
            lo == IF alcm.a >= alcm.b THEN alcm.b ELSE alcm.a
            m1 == alcm.result[1]
            m2 == alcm.result[2]
            mHi == IF alcm.a >= alcm.b THEN m1 ELSE m2
            T == hi * mHi
        IN  /\ m1 \in 1..MaxCount /\ m2 \in 1..MaxCount
            /\ AbsDiff(alcm.a * m1, alcm.b * m2) * alcm.error[2] <= alcm.error[1] * T
            /\ \A k \in 1..(mHi - 1) : ~MeetsBound(lo, hi * k, alcm.error)

C3_Witness ==
    /\ pc = "alcm"
    /\ alcm.status = "returned"
    /\ alcm.a = 5 /\ alcm.b = 3
    /\ alcm.error = <<1, 10>>
    /\ alcm.result = <<2, 3>>

\* C4: a call with a zero operand is rejected up front; it is never inside
\* the loop.
C4_ZeroOperandRejected ==
    (pc = "alcm" /\ alcm.status = "loop") => ~StrictEq(alcm.lower, 0)

\* a ledger as the data model has it: finite, positive quantities
WellFormedMap(map) == \A i \in 1..Len(map) : IsFinite(map[i][2]) /\ map[i][2] > 0

WellFormed(recipe) == WellFormedMap(recipe.inputs) /\ WellFormedMap(recipe.outputs)

\* C5: applyConsumerRecipe on well-formed ledgers scales the consumer by
\* floor(outputs[anchor] / consumer.inputs[anchor]); what it consumes of the
\* anchor is at most self's output of it, the anchor is never added to
\* self.inputs, self.outputs[anchor] goes down by what is consumed and up by
\* what the scaled consumer outputs of it; a multiplier of 0 leaves self as it
\* was and returns false.
C5_ConsumerWithinOutput ==
    (pc = "consumers" /\ call.step.op = "applyConsumerRecipe"
        /\ WellFormed(call.step.this) /\ WellFormed(call.step.recipe)) =>
        LET step == call.step
            anchor == step.resource
            outputCount == resourceCount(step.this.outputs, anchor)
            consumerInput == resourceCount(step.recipe.inputs, anchor)
            multiplier == outputCount \div consumerInput
        IN  /\ resourceCount(self.inputs, anchor) = resourceCount(step.this.inputs, anchor)
            /\ consumerInput > 0 =>
                /\ multiplier * consumerInput <= outputCount
                /\ step.changed = (multiplier # 0)
                /\ multiplier = 0 => self = step.this
                /\ multiplier # 0 =>
                    /\ resourceCount(self.outputs, anchor) =
                          outputCount - multiplier * consumerInput
                            + multiplier * resourceCount(step.recipe.outputs, anchor)
                    /\ step.ref.kind = "lit" =>
                          \A r \in Resources :
                              resourceCount(lits[step.ref.id].outputs, r) =
                                  multiplier * resourceCount(step.recipe.outputs, r)

C5_Witness ==
    /\ pc = "consumers"
    /\ call.step.op = "applyConsumerRecipe"
    /\ WellFormed(call.step.this) /\ WellFormed(call.step.recipe)
    /\ call.step.changed
    /\ call.step.resource = "J"
    /\ resourceCount(call.step.this.outputs, "J") = 3
    /\ resourceCount(call.step.recipe.inputs, "J") = 2
    /\ resourceCount(call.step.recipe.outputs, "J") = 1
    /\ resourceCount(self.outputs, "J") = 2

\* C6: in every pass of applyCyclicConsumerRecipes each definition of the
\* list is applied exactly once, in list order.
C6_FullPasses ==
    (pc = "consumers" /\ frame.op = "applyCyclicConsumerRecipes"
        /\ frame.idx > Len(frame.list)) =>
        call.applied = [i \in 1..Len(frame.list) |-> i]

\* the scenario of C10: P = {} -> {J: 4}, C = {J: 2} -> {K: 1},
\* D = {K: 1} -> {J: 1}, applyCyclicConsumerRecipes([(C, J), (D, K)])
Scenario10Called ==
    /\ pc = "consumers"
    /\ call.op = "applyCyclicConsumerRecipes"
    /\ call.self = NewRecipe(EmptyMap, Entry("J", 4))
    /\ call.lits = <<NewRecipe(Entry("J", 2), Entry("K", 1)),
                     NewRecipe(Entry("K", 1), Entry("J", 1))>>
    /\ call.list = <<[recipe |-> LitRef(1), resource |-> "J"],
                     [recipe |-> LitRef(2), resource |-> "K"]>>

Scenario10Converged ==
    /\ pc = "idle"
    /\ self = NewRecipe(EmptyMap, Entry("J", 1))

\* C10: the cyclic consumer scenario ends, with outputs {J: 1}, no K and no
\* inputs.
C10_ScenarioConverges == Scenario10Called ~> Scenario10Converged

\* C7: every pass of producer substitution tries every candidate of the
\* caller's list, in list order, literal Recipes included.
C7_EveryCandidateTried ==
    (pc = "producers" /\ frame.idx > Len(frame.recipeMap)) => call.tried = call.list

\* C8: once producer substitution has returned, invoking it again with the
\* same list substitutes nothing and leaves the recipe as it was; the
\* candidate recipes are unchanged by either call.
C8_FixedPoint ==
    /\ call.op \in ProducerOps => lits = call.lits
    /\ (pc = "idle" /\ call.op \in ProducerOps /\ call.again) =>
          /\ self = call.self
          /\ call.substitutions = 0

C8_Witness ==
    /\ pc = "idle"
    /\ call.op \in ProducerOps
    /\ call.again
    /\ call.first # self

KeysOf(map) == {map[i][1] : i \in 1..Len(map)}

\* C9: A needs q of X, the single candidate B outputs p of X and nothing
\* else and consumes nothing A needs or produces.  With an exact ratio
\* (tolerance 0) A is scaled by lcm(q,p)/q and B by lcm(q,p)/p: X is left in
\* neither ledger, the inputs are A's other scaled inputs plus B's scaled
\* inputs, the outputs A's scaled outputs.  A = {X:1} -> {Y:2} with
\* B = {Z:1} -> {X:3} gives {Z:1} -> {Y:6}.
C9_EndToEnd ==
    (pc = "idle" /\ call.op = "applyProducerRecipes" /\ ~call.again
        /\ call.list = <<LitRef(1)>>) =>
        LET A == call.self
            B == call.lits[1]
            q == resourceCount(A.inputs, "X")
            p == resourceCount(B.outputs, "X")
            lcm == LCM(q, p)
            s == lcm \div q
            k == lcm \div p
        IN  (/\ hasResource(A.inputs, "X")
             /\ KeysOf(B.outputs) = {"X"}
             /\ ~hasResource(A.outputs, "X")
             /\ KeysOf(B.inputs) \cap (KeysOf(A.inputs) \cup KeysOf(A.outputs)) = {}) =>
                /\ config.almostLeastCommonMultipleError[1] = 0 =>
                      /\ ~hasResource(self.inputs, "X")
                      /\ ~hasResource(self.outputs, "X")
                      /\ \A r \in Resources \ {"X"} :
                            resourceCount(self.inputs, r) =
                                s * resourceCount(A.inputs, r) + k * resourceCount(B.inputs, r)
                      /\ \A r \in Resources :
                            resourceCount(self.outputs, r) = s * resourceCount(A.outputs, r)
                /\ (A = NewRecipe(Entry("X", 1), Entry("Y", 2))
                      /\ B = NewRecipe(Entry("Z", 1), Entry("X", 3))) =>
                      self = NewRecipe(Entry("Z", 1), Entry("Y", 6))

C9_Witness ==
    /\ pc = "idle"
    /\ call.op = "applyProducerRecipes"
    /\ ~call.again
    /\ call.list = <<LitRef(1)>>
    /\ call.self = NewRecipe(Entry("X", 1), Entry("Y", 2))
    /\ call.lits[1] = NewRecipe(Entry("Z", 1), Entry("X", 3))
    /\ self = NewRecipe(Entry("Z", 1), Entry("Y", 6))

\* C11: a call of producer substitution with cyclic candidates ends: the loop
\* stops after a bounded number of passes (returning or raising an error).
C11_LoopsBounded == (pc = "producers") ~> (pc = "idle")

\* a producer substitution step has been made: self was call.step.this, the
\* producer call.step.recipe and the matched resource call.step.resource
SubstitutionStepMade ==
    /\ call.op \in ProducerOps
    /\ call.step.op = "substitute"
    /\ call.step.applied

\* C12 as stated: the step removes r from self.inputs, adds every input of
\* the scaled producer to self.inputs and every output of the scaled producer
\* other than r to self.outputs; r is the only resource substituted.
C12_OnlyFirstMatch ==
    SubstitutionStepMade =>
        LET A == call.step.this
            B == call.step.recipe
            r == call.step.resource
            s == call.step.multipliers[1]
            k == call.step.multipliers[2]
        IN  /\ ~hasResource(self.inputs, r)
            /\ resourceCount(self.outputs, r) = s * resourceCount(A.outputs, r)
            /\ \A x \in Resources \ {r} :
                /\ resourceCount(self.inputs, x) =
                     s * resourceCount(A.inputs, x) + k * resourceCount(B.inputs, x)
                /\ resourceCount(self.outputs, x) =
                     s * resourceCount(A.outputs, x) + k * resourceCount(B.outputs, x)

\* C12, amended: the step merges the scaled self, as the consumer, with the
\* scaled producer.  For every resource x, r or not, that the scaled self
\* needs (a) and the scaled producer outputs (b), the smaller of a and b is
\* cancelled on both sides: self.inputs[x] is the producer's scaled input of
\* x plus what is left of a, self.outputs[x] is self's scaled output of x
\* plus what is left of b.  A quantity of 0 is not stored.  With an exact
\* ratio (tolerance 0) a = b for r, so r leaves self.inputs and the producer
\* adds nothing of r to self.outputs.
C12_SubstitutionStep ==
    SubstitutionStepMade =>
        LET A == call.step.this
            B == call.step.recipe
            r == call.step.resource
            s == call.step.multipliers[1]
            k == call.step.multipliers[2]
        IN  /\ \A x \in Resources :
                LET a == s * resourceCount(A.inputs, x)
                    b == k * resourceCount(B.outputs, x)
                IN  /\ resourceCount(self.inputs, x) =
                         k * resourceCount(B.inputs, x) + (IF a > b THEN a - b ELSE 0)
                    /\ resourceCount(self.outputs, x) =
                         s * resourceCount(A.outputs, x) + (IF b > a THEN b - a ELSE 0)
                    /\ hasResource(self.inputs, x) <=> resourceCount(self.inputs, x) # 0
                    /\ hasResource(self.outputs, x) <=> resourceCount(self.outputs, x) # 0
            /\ (call.op = "applyProducerRecipes"
                  /\ config.almostLeastCommonMultipleError = <<0, 1>>) =>
                  /\ ~hasResource(self.inputs, r)
                  /\ resourceCount(self.outputs, r) = s * resourceCount(A.outputs, r)

\* a step whose producer has a second output that self needs too
C12_Witness ==
    /\ SubstitutionStepMade
    /\ call.step.resource = "X"
    /\ hasResource(call.step.this.inputs, "J")
    /\ hasResource(call.step.recipe.outputs, "J")
    /\ ~hasResource(self.inputs, "J")

\* C13: for every resource x that the consumer needs (c) and the producer
\* outputs (p), merging cancels the smaller of the two: with p > c the
\* producer contributes p - c of x to the outputs and the consumer no input
\* of x, with p = c neither contributes x, with p < c the producer
\* contributes no output of x and the consumer an input of c - p.  p = 10
\* with c = 10 leaves x in neither ledger, p = 10 with c = 4 leaves an
\* output of 6 and no input.
C13_MergeCancellation ==
    call.op = "mergeRecipes" =>
        \A x \in Resources :
            LET c == resourceCount(call.consuming.inputs, x)
                p == resourceCount(call.producing.outputs, x)
                fromProducer == resourceCount(self.outputs, x)
                                    - resourceCount(call.consuming.outputs, x)
                fromConsumer == resourceCount(self.inputs, x)
                                    - resourceCount(call.producing.inputs, x)
                others == /\ ~hasResource(call.consuming.outputs, x)
                          /\ ~hasResource(call.producing.inputs, x)
            IN  (hasResource(call.consuming.inputs, x)
                    /\ hasResource(call.producing.outputs, x)) =>
                    /\ p > c => fromProducer = p - c /\ fromConsumer = 0
                    /\ p = c => fromProducer = 0 /\ fromConsumer = 0
                    /\ p < c => fromProducer = 0 /\ fromConsumer = c - p
                    /\ (p = 10 /\ c = 10 /\ others) =>
                          ~hasResource(self.inputs, x) /\ ~hasResource(self.outputs, x)
                    /\ (p = 10 /\ c = 4 /\ others) =>
                          /\ ~hasResource(self.inputs, x)
                          /\ hasResource(self.outputs, x)
                          /\ resourceCount(self.outputs, x) = 6

\* the producer makes 10 of X and 1 of J, the consumer needs 4 of X and 2 of J
C13_Witness ==
    /\ call.op = "mergeRecipes"
    /\ call.consuming = NewRecipe(Entry("X", 4) \o Entry("J", 2), Entry("Y", 1))
    /\ call.producing = NewRecipe(Entry("K", 1), Entry("X", 10) \o Entry("J", 1))
    /\ self = NewRecipe(Entry("K", 1) \o Entry("J", 1), Entry("X", 6) \o Entry("Y", 1))

\* what a recipe makes of a resource, less what it needs of it
NetFlow(recipe, x) == resourceCount(recipe.outputs, x) - resourceCount(recipe.inputs, x)

ConsumerOps == {"applyConsumerRecipes", "applyCyclicConsumerRecipes"}

\* applyConsumerRecipe was called on well-formed ledgers, with a consumer
\* that needs the anchor
ConsumerStepMade ==
    /\ call.op \in ConsumerOps
    /\ call.step.op = "applyConsumerRecipe"
    /\ WellFormed(call.step.this)
    /\ WellFormed(call.step.recipe)
    /\ hasResource(call.step.recipe.inputs, call.step.resource)

\* C14: merging conserves the net flow of every resource: the result's net
\* flow is the producer's plus the consumer's, as they were before the call.
\* So applyConsumerRecipe with multiplier m leaves self with its old net flow
\* plus m times the consumer's, and a producer substitution step with
\* multipliers (s, k) with s times its old net flow plus k times the
\* producer's.
C14_NetFlowConserved ==
    /\ call.op = "mergeRecipes" =>
          \A x \in Resources :
              NetFlow(self, x) = NetFlow(call.producing, x) + NetFlow(call.consuming, x)
    /\ ConsumerStepMade =>
          LET step == call.step
              m == resourceCount(step.this.outputs, step.resource)
                      \div resourceCount(step.recipe.inputs, step.resource)
          IN  \A x \in Resources :
                  NetFlow(self, x) = NetFlow(step.this, x) + m * NetFlow(step.recipe, x)
    /\ SubstitutionStepMade =>
          LET step == call.step
              s == step.multipliers[1]
              k == step.multipliers[2]
          IN  \A x \in Resources :
                  NetFlow(self, x) = s * NetFlow(step.this, x) + k * NetFlow(step.recipe, x)

\* a merge that cancels a resource the consumer needs more of than the
\* producer makes
C14_Witness ==
    /\ call.op = "mergeRecipes"
    /\ \E x \in Resources :
        /\ hasResource(call.consuming.inputs, x)
        /\ hasResource(call.producing.outputs, x)
        /\ hasResource(self.inputs, x)
        /\ ~hasResource(self.outputs, x)

\* a consumer applied twice over, and a producer substituted with both
\* recipes scaled

C14_WitnessConsumer ==
    /\ ConsumerStepMade
    /\ call.step.changed
    /\ resourceCount(call.step.this.outputs, call.step.resource)
          \div resourceCount(call.step.recipe.inputs, call.step.resource) = 2

C14_WitnessProducer ==
    /\ SubstitutionStepMade
    /\ call.step.multipliers[1] > 1
    /\ call.step.multipliers[2] > 1

\* C15: a consumer given as a literal Recipe is not changed by being applied:
\* during and after applyConsumerRecipes and applyCyclicConsumerRecipes the
\* caller's literal recipes are as they were when the method was called.
C15_LiteralConsumerUnchanged == call.op \in ConsumerOps => lits = call.lits

====
